---- MODULE Spec2Model ----
(***************************************************************************)
(* Memory Match (src/memory.js): the board generator (shuffle,             *)
(* createBoard), the round loop of playGame with its two validated         *)
(* prompts, the score, and the persisted high-score list                   *)
(* (loadHighScores, saveHighScore, showHighScores, resetHighScores).       *)
(*                                                                         *)
(* JavaScript arrays are functions over 0..n-1, so that indices are the    *)
(* code's indices.  Strings that the code inspects (prompt answers, file   *)
(* content) are sequences of one-character strings.                        *)
(***************************************************************************)
EXTENDS Integers, Sequences, FiniteSets, TLC

VARIABLES
    symbols,     \* the module-level array `symbols` (memory.js:12)
    array,       \* shuffle's `array`: the copy createBoard passes to it
    i,           \* shuffle's `i`, then the `i` of createBoard's row loop
    swaps,       \* history: the proper swaps (j # i) the shuffle has drawn
    board,       \* createBoard's `board`, then playGame's `board`
    revealed,    \* playGame's `revealed`
    moves,       \* playGame's `moves`
    matches,     \* playGame's `matches`
    row1, col1,  \* the first pick of the current turn
    answer,      \* what the last validate callback returned
    result,      \* what the last resolved turn printed
    matched,     \* history: the cells of the pairs found so far
    score,       \* playGame's `score`
    file,        \* the high-score file: whether it exists, and its content
    error,       \* what the last command threw, if anything
    shown,       \* what the last command printed of the high scores
    pc           \* where the running command is

shuffleVars == <<symbols, array, i, swaps>>
roundVars == <<revealed, moves, matches, row1, col1, answer, result, matched, score>>
fileVars == <<file, error, shown>>
vars == <<shuffleVars, board, roundVars, fileVars, pc>>

(***************************************************************************)
(* Bounds of the model.                                                    *)
(***************************************************************************)
\* proper swaps (j # i) a shuffle run may draw when every draw is explored
MaxSwaps == 2
\* the rounds are played on the boards of the runs in which Math.random()
\* returns the same d / RandomSteps every time, for d in 0..RandomSteps-1
RandomSteps == 2
\* the move counts the score is computed for
MaxScoreMoves == 50
\* mismatched turns a round may take before the model stops exploring it
MaxMisses == 1

(***************************************************************************)
(* Program constants.                                                      *)
(***************************************************************************)
SYMBOLS ==
    [k \in 0..15 |-> <<"A", "A", "B", "B", "C", "C", "D", "D",
                       "E", "E", "F", "F", "G", "G", "H", "H">>[k + 1]]
Side == 4
Pairs == 8

NoPick == 0 - 1

Min(a, b) == IF a < b THEN a ELSE b
Max(a, b) == IF a > b THEN a ELSE b

(***************************************************************************)
(* Arrays.                                                                 *)
(***************************************************************************)
length(a) == Cardinality(DOMAIN a)
EmptyArray == [k \in {} |-> 0]
push(a, x) == [k \in 0..length(a) |-> IF k = length(a) THEN x ELSE a[k]]
slice(a, from, to) == [k \in 0..(to - from - 1) |-> a[from + k]]

(***************************************************************************)
(* shuffle: one iteration of the loop body, [array[i], array[j]] =         *)
(* [array[j], array[i]].                                                   *)
(***************************************************************************)
swapLostTemp(a, x, y) == [a EXCEPT ![x] = a[y]]

swap(a, x, y) == [a EXCEPT ![x] = a[y], ![y] = a[x]]

\* The whole of shuffle(a) for the run whose draw at index k is draw[k].
RECURSIVE shuffleFrom(_, _, _)
shuffleFrom(a, k, draw) ==
    IF k > 0 THEN shuffleFrom(swap(a, k, draw[k]), k - 1, draw) ELSE a

shuffle(a, draw) == shuffleFrom(a, length(a) - 1, draw)

rows(shuffled) == [r \in 0..(Side - 1) |-> slice(shuffled, r * Side, (r + 1) * Side)]

createBoard(draw) == rows(shuffle(SYMBOLS, draw))

\* Math.floor(Math.random() * (k + 1)) at index k when Math.random() is
\* d / RandomSteps
RoundDraws ==
    {[k \in 1..15 |-> (d * (k + 1)) \div RandomSteps] : d \in 0..(RandomSteps - 1)}

(***************************************************************************)
(* Prompt answers.  parseCoordinates tests the answer against              *)
(* /^[1-4],[1-4]$/ and converts the two numbers to 0-based indices.        *)
(***************************************************************************)
Digits == <<"0", "1", "2", "3", "4", "5", "6", "7", "8", "9">>
IsDigit(c) == \E d \in 1..10 : Digits[d] = c
DigitValue(c) == (CHOOSE d \in 1..10 : Digits[d] = c) - 1

\* input.split(','): the pieces between the commas
RECURSIVE split(_)
split(s) ==
    IF \A k \in 1..Len(s) : s[k] # ","
    THEN <<s>>
    ELSE LET k == CHOOSE k \in 1..Len(s) :
                      s[k] = "," /\ \A m \in 1..(k - 1) : s[m] # ","
         IN  <<SubSeq(s, 1, k - 1)>> \o split(SubSeq(s, k + 1, Len(s)))

\* parseInt on a string of decimal digits
RECURSIVE parseInt(_)
parseInt(s) ==
    IF Len(s) = 0 THEN 0
    ELSE 10 * parseInt(SubSeq(s, 1, Len(s) - 1)) + DigitValue(s[Len(s)])

OneToFour == {"1", "2", "3", "4"}
test(input) ==
    /\ Len(input) = 3
    /\ input[1] \in OneToFour
    /\ input[2] = ","
    /\ input[3] \in OneToFour

Threw == <<>>
parseCoordinates(input) ==
    IF ~test(input) THEN Threw
    ELSE LET parts == split(input)
         IN  <<parseInt(parts[1]) - 1, parseInt(parts[2]) - 1>>

\* what a validate callback returns: true, or the message of the refusal
True == "true"
InvalidFormatFirst == "Invalid format. Use coordinates (e.g., 1,2)."
InvalidFormatSecond == "Invalid format. Use coordinates (e.g., 2,3)."
AlreadyRevealed == "Card already revealed!"
InvalidOrRevealed == "Invalid or already revealed card!"

\* validateFirst without the test of the reveal flag
validateFirstAnyCell(input) ==
    LET p == parseCoordinates(input)
    IN  IF p = Threw THEN InvalidFormatFirst ELSE True

validateFirst(input) ==
    LET p == parseCoordinates(input)
    IN  IF p = Threw THEN InvalidFormatFirst
        ELSE IF ~revealed[p[1]][p[2]] THEN True ELSE AlreadyRevealed

\* validateSecond with && for ||
validateSecondBoth(input) ==
    LET p == parseCoordinates(input)
    IN  IF p = Threw THEN InvalidFormatSecond
        ELSE IF ~(revealed[p[1]][p[2]] /\ (p[1] = row1 /\ p[2] = col1))
             THEN True ELSE InvalidOrRevealed

validateSecond(input) ==
    LET p == parseCoordinates(input)
    IN  IF p = Threw THEN InvalidFormatSecond
        ELSE IF ~(revealed[p[1]][p[2]] \/ (p[1] = row1 /\ p[2] = col1))
             THEN True ELSE InvalidOrRevealed

\* the answers typed at a prompt: every well-formed one and some others
WellFormed == {<<r, ",", c>> : r \in OneToFour, c \in OneToFour}
IllFormed ==
    { <<>>, <<"0", ",", "1">>, <<"1", ",", "5">>, <<"1", ",", "2", " ">>,
      <<"a", ",", "b">> }
Answers == WellFormed \cup IllFormed

(***************************************************************************)
(* JavaScript values that reach the high-score file: numbers, strings,     *)
(* arrays and objects (an object is the sequence of its <<key, value>>     *)
(* members, in insertion order).                                           *)
(***************************************************************************)
Num(n) == [t |-> "number", v |-> n]
Str(s) == [t |-> "string", v |-> s]
Arr(e) == [t |-> "array", v |-> e]
Obj(m) == [t |-> "object", v |-> m]
Undefined == [t |-> "undefined", v |-> <<>>]

\* o[key], for an object o
RECURSIVE memberFrom(_, _, _)
memberFrom(m, key, k) ==
    IF k > Len(m) THEN Undefined
    ELSE IF m[k][1] = key THEN m[k][2] ELSE memberFrom(m, key, k + 1)
get(o, key) == IF o.t = "object" THEN memberFrom(o.v, key, 1) ELSE Undefined

(***************************************************************************)
(* The content of the file is the sequence of its JSON lexemes: the        *)
(* punctuation, the string literals (the text between the quotes, as       *)
(* written) and the number literals (their digits).  The white space       *)
(* JSON.stringify(v, null, 2) puts between lexemes, which JSON.parse       *)
(* skips, is left out.                                                     *)
(***************************************************************************)
Punct(c) == [k |-> "punct", text |-> <<c>>]
StringLit(text) == [k |-> "string", text |-> text]
NumberLit(text) == [k |-> "number", text |-> text]

\* the text of a string literal: a quote or a backslash gets a backslash
\* a string literal written without escapes
quoteNothing(s) == s

RECURSIVE quote(_)
quote(s) ==
    IF \A k \in 1..Len(s) : s[k] \notin {"\"", "\\"} THEN s
    ELSE (IF Head(s) \in {"\"", "\\"} THEN <<"\\", Head(s)>> ELSE <<Head(s)>>)
         \o quote(Tail(s))

\* the string a literal denotes; not ok for a bare quote, an escape that is
\* not one of \" and \\, or a trailing backslash
RECURSIVE unquoteFrom(_, _, _)
unquoteFrom(text, k, acc) ==
    IF k > Len(text) THEN [ok |-> TRUE, v |-> acc]
    ELSE IF text[k] = "\"" THEN [ok |-> FALSE, v |-> <<>>]
    ELSE IF text[k] = "\\"
         THEN IF k < Len(text) /\ text[k + 1] \in {"\"", "\\"}
              THEN unquoteFrom(text, k + 2, Append(acc, text[k + 1]))
              ELSE [ok |-> FALSE, v |-> <<>>]
    ELSE unquoteFrom(text, k + 1, Append(acc, text[k]))
unquote(text) ==
    IF \A k \in 1..Len(text) : text[k] \notin {"\"", "\\"}
    THEN [ok |-> TRUE, v |-> text]
    ELSE unquoteFrom(text, 1, <<>>)

\* the decimal digits of an integer
RECURSIVE digitsOf(_)
digitsOf(n) ==
    IF n < 10 THEN <<Digits[n + 1]>>
    ELSE Append(digitsOf(n \div 10), Digits[(n % 10) + 1])
numberText(n) == IF n < 0 THEN <<"-">> \o digitsOf(0 - n) ELSE digitsOf(n)

\* an integer literal of JSON: an optional minus, no leading zero
isNumberText(text) ==
    LET d == IF Len(text) > 0 /\ text[1] = "-" THEN Tail(text) ELSE text
    IN  /\ Len(d) > 0
        /\ \A k \in 1..Len(d) : IsDigit(d[k])
        /\ (Len(d) > 1 => d[1] # "0")
numberOf(text) ==
    IF text[1] = "-" THEN 0 - parseInt(Tail(text)) ELSE parseInt(text)

\* JSON.stringify
RECURSIVE stringify(_)
RECURSIVE stringifyElements(_, _)
RECURSIVE stringifyMembers(_, _)
stringifyElements(e, k) ==
    IF k > Len(e) THEN <<>>
    ELSE (IF k > 1 THEN <<Punct(",")>> ELSE <<>>)
         \o stringify(e[k]) \o stringifyElements(e, k + 1)
stringifyMembers(m, k) ==
    IF k > Len(m) THEN <<>>
    ELSE (IF k > 1 THEN <<Punct(",")>> ELSE <<>>)
         \o <<StringLit(quote(m[k][1])), Punct(":")>>
         \o stringify(m[k][2]) \o stringifyMembers(m, k + 1)
stringify(x) ==
    CASE x.t = "number" -> <<NumberLit(numberText(x.v))>>
      [] x.t = "string" -> <<StringLit(quote(x.v))>>
      [] x.t = "array" -> <<Punct("[")>> \o stringifyElements(x.v, 1) \o <<Punct("]")>>
      [] x.t = "object" -> <<Punct("{")>> \o stringifyMembers(x.v, 1) \o <<Punct("}")>>

\* JSON.parse: [ok, v, next], next being the index after the value read
SyntaxError == [ok |-> FALSE, v |-> Undefined, next |-> 0]
Parsed(x, next) == [ok |-> TRUE, v |-> x, next |-> next]
isPunct(ts, p, c) == p <= Len(ts) /\ ts[p].k = "punct" /\ ts[p].text = <<c>>

RECURSIVE parseValue(_, _)
RECURSIVE parseElements(_, _, _)
RECURSIVE parseMembers(_, _, _)
afterElement(ts, r, acc) ==
    IF ~r.ok THEN SyntaxError
    ELSE IF isPunct(ts, r.next, ",")
         THEN parseElements(ts, r.next + 1, Append(acc, r.v))
    ELSE IF isPunct(ts, r.next, "]")
         THEN Parsed(Arr(Append(acc, r.v)), r.next + 1)
    ELSE SyntaxError
parseElements(ts, p, acc) == afterElement(ts, parseValue(ts, p), acc)
afterMember(ts, key, r, acc) ==
    IF ~key.ok \/ ~r.ok THEN SyntaxError
    ELSE IF isPunct(ts, r.next, ",")
         THEN parseMembers(ts, r.next + 1, Append(acc, <<key.v, r.v>>))
    ELSE IF isPunct(ts, r.next, "}")
         THEN Parsed(Obj(Append(acc, <<key.v, r.v>>)), r.next + 1)
    ELSE SyntaxError
parseMembers(ts, p, acc) ==
    IF ~(p + 1 <= Len(ts) /\ ts[p].k = "string" /\ isPunct(ts, p + 1, ":"))
    THEN SyntaxError
    ELSE afterMember(ts, unquote(ts[p].text), parseValue(ts, p + 2), acc)
stringValue(u, next) == IF u.ok THEN Parsed(Str(u.v), next) ELSE SyntaxError
parseValue(ts, p) ==
    IF p > Len(ts) THEN SyntaxError
    ELSE CASE ts[p].k = "string" -> stringValue(unquote(ts[p].text), p + 1)
           [] ts[p].k = "number" ->
                IF isNumberText(ts[p].text)
                THEN Parsed(Num(numberOf(ts[p].text)), p + 1)
                ELSE SyntaxError
           [] isPunct(ts, p, "[") ->
                IF isPunct(ts, p + 1, "]") THEN Parsed(Arr(<<>>), p + 2)
                ELSE parseElements(ts, p + 1, <<>>)
           [] isPunct(ts, p, "{") ->
                IF isPunct(ts, p + 1, "}") THEN Parsed(Obj(<<>>), p + 2)
                ELSE parseMembers(ts, p + 1, <<>>)
           [] OTHER -> SyntaxError

wholeText(ts, r) == IF r.ok /\ r.next = Len(ts) + 1 THEN r ELSE SyntaxError
JSONparse(ts) == wholeText(ts, parseValue(ts, 1))

(***************************************************************************)
(* The high-score list.                                                    *)
(***************************************************************************)
NameKey == <<"n", "a", "m", "e">>
ScoreKey == <<"s", "c", "o", "r", "e">>
DateKey == <<"d", "a", "t", "e">>

\* { name, score, date } of line 27
Entry(name, sc, date) ==
    Obj(<< <<NameKey, Str(name)>>, <<ScoreKey, Num(sc)>>, <<DateKey, Str(date)>> >>)

Absent == [exists |-> FALSE, data |-> <<>>]
Written(ts) == [exists |-> TRUE, data |-> ts]

\* loadHighScores: a readFile or a JSON.parse that throws gives []
loadHighScores(f) ==
    IF ~f.exists THEN Arr(<<>>)
    ELSE LET r == JSONparse(f.data)
         IN  IF r.ok THEN r.v ELSE Arr(<<>>)

\* Array.prototype.sort with the comparator (a, b) => b.score - a.score:
\* a stable sort, each element going before the first one it must precede
\* the comparator with a and b exchanged
compareAscending(a, b) == get(a, ScoreKey).v - get(b, ScoreKey).v

compare(a, b) == get(b, ScoreKey).v - get(a, ScoreKey).v

\* an insertion that puts the element before its equals
RECURSIVE insertBeforeEquals(_, _)
insertBeforeEquals(sorted, x) ==
    IF Len(sorted) = 0 THEN <<x>>
    ELSE IF compare(x, Head(sorted)) <= 0 THEN <<x>> \o sorted
    ELSE <<Head(sorted)>> \o insertBeforeEquals(Tail(sorted), x)

RECURSIVE insertSorted(_, _)
insertSorted(sorted, x) ==
    IF Len(sorted) = 0 THEN <<x>>
    ELSE IF compare(x, Head(sorted)) < 0 THEN <<x>> \o sorted
    ELSE <<Head(sorted)>> \o insertSorted(Tail(sorted), x)

RECURSIVE sortFrom(_, _, _)
sortFrom(list, k, sorted) ==
    IF k > Len(list) THEN sorted
    ELSE sortFrom(list, k + 1, insertSorted(sorted, list[k]))
sort(list) == sortFrom(list, 1, <<>>)

\* highScores.splice(n): what is left in highScores
Keep == 5
splice(list, n) == SubSeq(list, 1, Min(n, Len(list)))

\* lines 27-29 without the splice
mergeNoSplice(existing, entry) == sort(Append(existing, entry))

\* lines 27-29 on the loaded array
merge(existing, entry) == splice(sort(Append(existing, entry)), Keep)

\* what showHighScores prints: a message, and a line for each entry
Nothing == [message |-> "", lines |-> <<>>]
NoScoresYet == [message |-> "No high scores yet.", lines |-> <<>>]
Line(k, entry) ==
    <<k, get(entry, NameKey), get(entry, ScoreKey), get(entry, DateKey)>>
HighScoresShown(list) ==
    [message |-> "High Scores:", lines |-> [k \in 1..Len(list) |-> Line(k, list[k])]]

\* highScores.length
lengthOf(x) == IF x.t \in {"array", "string"} THEN Len(x.v) ELSE 0

\* saveHighScore(score, name), the clock reading date: highScores.push
\* throws a TypeError when what was loaded is not an array
saveHighScore(sc, name, date) ==
    LET highScores == loadHighScores(file)
    IN  IF highScores.t # "array"
        THEN /\ error' = "TypeError"
             /\ file' = file
             /\ shown' = Nothing
        ELSE /\ error' = ""
             /\ shown' = Nothing
             /\ file' = Written(stringify(Arr(merge(highScores.v, Entry(name, sc, date)))))

\* the names typed at the last prompt (the second one is a quote and a
\* backslash, which JSON escapes), and the readings of the clock
Player == <<"P">>
Quoted == <<"\"", "\\">>
Names == {Player, Quoted}
Dates == {<<"T", "0", "Z">>}

(***************************************************************************)
(* playGame: the round loop.                                               *)
(***************************************************************************)
Cells == (0..(Side - 1)) \X (0..(Side - 1))
AllHidden == [r \in 0..(Side - 1) |-> [c \in 0..(Side - 1) |-> FALSE]]
NoScore == 0 - 1

\* what line 152 or line 155 prints
MatchFound == "Match found!"
NoMatch == "No match! Cards will be hidden."
NoResult == ""

\* computeScore without the floor
computeScoreNoFloor(m) == 100 - m * 5

computeScore(m) == Max(100 - m * 5, 10)

\* FirstPick with the pick remembered before the answer is validated
FirstPickRemembersRefused(input) ==
    /\ pc = "first"
    /\ answer' = validateFirst(input)
    /\ LET p == parseCoordinates(input)
       IN  IF p = Threw THEN UNCHANGED <<row1, col1, revealed, pc>>
           ELSE /\ row1' = p[1]
                /\ col1' = p[2]
                /\ IF answer' = True
                   THEN /\ revealed' = [revealed EXCEPT ![p[1]][p[2]] = TRUE]
                        /\ pc' = "second"
                   ELSE UNCHANGED <<revealed, pc>>
    /\ UNCHANGED <<shuffleVars, board, moves, matches, result, matched, score,
                   fileVars>>

\* the first prompt: validate refuses the answer and the prompt asks again,
\* or accepts it and lines 122-124 run
FirstPick(input) ==
    /\ pc = "first"
    /\ answer' = validateFirst(input)
    /\ IF answer' = True
       THEN LET p == parseCoordinates(input)
            IN  /\ row1' = p[1]
                /\ col1' = p[2]
                /\ revealed' = [revealed EXCEPT ![p[1]][p[2]] = TRUE]
                /\ pc' = "second"
       ELSE UNCHANGED <<row1, col1, revealed, pc>>
    /\ UNCHANGED <<shuffleVars, board, moves, matches, result, matched, score,
                   fileVars>>

\* lines 148-158 with the else lost: the two cells are hidden after a
\* match too
resolveTurnHidesAlways(row2, col2) ==
    /\ moves' = moves + 1
    /\ IF board[row1][col1] = board[row2][col2]
       THEN /\ result' = MatchFound
            /\ matches' = matches + 1
            /\ matched' = matched \cup {<<row1, col1>>, <<row2, col2>>}
       ELSE /\ moves - matches < MaxMisses
            /\ result' = NoMatch
            /\ matches' = matches
            /\ matched' = matched
    /\ revealed' = [[revealed EXCEPT ![row1][col1] = FALSE]
                       EXCEPT ![row2][col2] = FALSE]

\* lines 155-156 with the first of the two assignments lost: a mismatch
\* hides the second cell only
resolveTurnKeepsFirst(row2, col2) ==
    LET both == [revealed EXCEPT ![row2][col2] = TRUE]
    IN  /\ moves' = moves + 1
        /\ IF board[row1][col1] = board[row2][col2]
           THEN /\ result' = MatchFound
                /\ matches' = matches + 1
                /\ revealed' = both
                /\ matched' = matched \cup {<<row1, col1>>, <<row2, col2>>}
           ELSE /\ moves - matches < MaxMisses
                /\ result' = NoMatch
                /\ matches' = matches
                /\ revealed' = [both EXCEPT ![row2][col2] = FALSE]
                /\ matched' = matched

\* line 148 moved into the else branch: only a mismatch counts as a move
resolveTurnCountsMisses(row2, col2) ==
    LET both == [revealed EXCEPT ![row2][col2] = TRUE]
    IN  IF board[row1][col1] = board[row2][col2]
        THEN /\ moves' = moves
             /\ result' = MatchFound
             /\ matches' = matches + 1
             /\ revealed' = both
             /\ matched' = matched \cup {<<row1, col1>>, <<row2, col2>>}
        ELSE /\ moves - matches < MaxMisses
             /\ moves' = moves + 1
             /\ result' = NoMatch
             /\ matches' = matches
             /\ revealed' = [[both EXCEPT ![row1][col1] = FALSE]
                                EXCEPT ![row2][col2] = FALSE]
             /\ matched' = matched

\* lines 154-157 lost: a mismatch leaves both cells face up
resolveTurnNeverHides(row2, col2) ==
    LET both == [revealed EXCEPT ![row2][col2] = TRUE]
    IN  /\ moves' = moves + 1
        /\ revealed' = both
        /\ IF board[row1][col1] = board[row2][col2]
           THEN /\ result' = MatchFound
                /\ matches' = matches + 1
                /\ matched' = matched \cup {<<row1, col1>>, <<row2, col2>>}
           ELSE /\ moves - matches < MaxMisses
                /\ result' = NoMatch
                /\ matches' = matches
                /\ matched' = matched

\* lines 145-158: the second cell is revealed, the move counted, and the
\* two cells compared: a pair is counted, or both cells are hidden again
resolveTurn(row2, col2) ==
    LET both == [revealed EXCEPT ![row2][col2] = TRUE]
    IN  /\ moves' = moves + 1
        /\ IF board[row1][col1] = board[row2][col2]
           THEN /\ result' = MatchFound
                /\ matches' = matches + 1
                /\ revealed' = both
                /\ matched' = matched \cup {<<row1, col1>>, <<row2, col2>>}
           ELSE /\ moves - matches < MaxMisses
                /\ result' = NoMatch
                /\ matches' = matches
                /\ revealed' = [[both EXCEPT ![row1][col1] = FALSE]
                                   EXCEPT ![row2][col2] = FALSE]
                /\ matched' = matched

\* the second prompt: validate refuses the answer and the prompt asks
\* again, or accepts it and the turn is resolved (lines 144-158), up to the
\* pause of line 160.  row1, col1, row2 and col2 are not read after line
\* 157: row2 and col2 are local to the step, and the first pick is
\* forgotten when the turn is resolved.
SecondPick(input) ==
    /\ pc = "second"
    /\ answer' = validateSecond(input)
    /\ IF answer' = True
       THEN LET p == parseCoordinates(input)
            IN  /\ resolveTurn(p[1], p[2])
                /\ row1' = NoPick
                /\ col1' = NoPick
                /\ pc' = "pause"
       ELSE UNCHANGED <<moves, result, matches, revealed, matched, row1, col1, pc>>
    /\ UNCHANGED <<shuffleVars, board, score, fileVars>>

\* PauseElapsed with <= for < in the loop test
PauseElapsedOffByOne ==
    /\ pc = "pause"
    /\ IF matches <= Pairs
       THEN pc' = "first" /\ score' = score
       ELSE pc' = "name" /\ score' = computeScore(moves)
    /\ UNCHANGED <<shuffleVars, board, revealed, moves, matches, row1, col1,
                   answer, result, matched, fileVars>>

\* line 175 moved into the loop: the score so far is saved after each turn
PauseElapsedSaves ==
    /\ pc = "pause"
    /\ IF matches < Pairs
       THEN /\ pc' = "first"
            /\ score' = score
            /\ \E date \in Dates : saveHighScore(computeScore(moves), Player, date)
       ELSE /\ pc' = "name"
            /\ score' = computeScore(moves)
            /\ UNCHANGED fileVars
    /\ UNCHANGED <<shuffleVars, board, revealed, moves, matches, row1, col1,
                   answer, result, matched>>

\* the pause is over: the loop test of line 103, then either the next
\* first prompt or the end of the round (lines 163-167)
PauseElapsed ==
    /\ pc = "pause"
    /\ IF matches < Pairs
       THEN pc' = "first" /\ score' = score
       ELSE pc' = "name" /\ score' = computeScore(moves)
    /\ UNCHANGED <<shuffleVars, board, revealed, moves, matches, row1, col1,
                   answer, result, matched, fileVars>>

\* the name is typed and the score saved (line 175)
NameEntered(name, date) ==
    /\ pc = "name"
    /\ saveHighScore(score, name, date)
    /\ pc' = "done"
    /\ UNCHANGED <<shuffleVars, board, roundVars>>

\* what the file holds when a round starts
FullList ==
    Arr(<<Entry(<<"P">>, 60, <<"T", "0", "Z">>), Entry(<<"P">>, 60, <<"T", "0", "Z">>),
          Entry(<<"P">>, 60, <<"T", "0", "Z">>), Entry(<<"P">>, 60, <<"T", "0", "Z">>),
          Entry(<<"P">>, 55, <<"T", "0", "Z">>)>>)
RoundFiles == {Written(stringify(FullList))}

Init ==
    /\ symbols = SYMBOLS
    /\ array = EmptyArray
    /\ i = 0
    /\ swaps = 0
    /\ \E draw \in RoundDraws : board = createBoard(draw)
    /\ revealed = AllHidden
    /\ moves = 0
    /\ matches = 0
    /\ row1 = NoPick /\ col1 = NoPick
    /\ answer = True
    /\ result = NoResult
    /\ matched = {}
    /\ score = NoScore
    /\ file \in RoundFiles
    /\ error = ""
    /\ shown = Nothing
    /\ pc = "first"

Next ==
    \/ \E input \in Answers : FirstPick(input)
    \/ \E input \in Answers : SecondPick(input)
    \/ PauseElapsed
    \/ \E name \in Names, date \in Dates : NameEntered(name, date)

Spec == Init /\ [][Next]_vars

(***************************************************************************)
(* createBoard step by step: the loop of shuffle, every draw j in 0..i      *)
(* being possible, then the loop that cuts the rows.                       *)
(***************************************************************************)
ShuffleStep(j) ==
    /\ pc = "shuffle"
    /\ i > 0
    /\ j \in 0..i
    /\ (j # i => swaps < MaxSwaps)
    /\ array' = swap(array, i, j)
    /\ swaps' = IF j # i THEN swaps + 1 ELSE swaps
    /\ i' = IF i - 1 > 0 THEN i - 1 ELSE 0
    /\ pc' = IF i - 1 > 0 THEN "shuffle" ELSE "rows"
    /\ UNCHANGED <<symbols, board, roundVars, fileVars>>

PushRow ==
    /\ pc = "rows"
    /\ i < Side
    /\ board' = push(board, slice(array, i * Side, (i + 1) * Side))
    /\ i' = i + 1
    /\ pc' = IF i + 1 < Side THEN "rows" ELSE "created"
    /\ UNCHANGED <<symbols, array, swaps, roundVars, fileVars>>

\* line 63: shuffle is given [...symbols], a copy
InitShuffle ==
    /\ symbols = SYMBOLS
    /\ array = symbols
    /\ i = length(array) - 1
    /\ swaps = 0
    /\ board = EmptyArray
    /\ revealed = AllHidden
    /\ moves = 0
    /\ matches = 0
    /\ row1 = NoPick /\ col1 = NoPick
    /\ answer = True
    /\ result = NoResult
    /\ matched = {}
    /\ score = NoScore
    /\ file = Absent
    /\ error = ""
    /\ shown = Nothing
    /\ pc = "shuffle"

NextShuffle ==
    \/ \E j \in 0..15 : ShuffleStep(j)
    \/ PushRow

SpecShuffle == InitShuffle /\ [][NextShuffle]_vars

(***************************************************************************)
(* The score of line 164 for every move count: the round reduced to its    *)
(* move counter.                                                           *)
(***************************************************************************)
MoveCounted ==
    /\ pc = "counting"
    /\ moves < MaxScoreMoves
    /\ moves' = moves + 1
    /\ UNCHANGED <<shuffleVars, board, revealed, matches, row1, col1, answer,
                   result, matched, score, fileVars, pc>>

ScoreComputed ==
    /\ pc = "counting"
    /\ score' = computeScore(moves)
    /\ pc' = "scored"
    /\ UNCHANGED <<shuffleVars, board, revealed, moves, matches, row1, col1,
                   answer, result, matched, fileVars>>

InitScore ==
    /\ symbols = SYMBOLS
    /\ array = EmptyArray
    /\ i = 0
    /\ swaps = 0
    /\ board = EmptyArray
    /\ revealed = AllHidden
    /\ moves = 0
    /\ matches = 0
    /\ row1 = NoPick /\ col1 = NoPick
    /\ answer = True
    /\ result = NoResult
    /\ matched = {}
    /\ score = NoScore
    /\ file = Absent
    /\ error = ""
    /\ shown = Nothing
    /\ pc = "counting"

NextScore == MoveCounted \/ ScoreComputed

SpecScore == InitScore /\ [][NextScore]_vars

(***************************************************************************)
(* The commands that touch the high-score file, one after another: a play  *)
(* that reaches line 175 with some score and name, highscore, reset.       *)
(***************************************************************************)
SaveCommand(sc, name, date) ==
    /\ pc = "shell"
    /\ saveHighScore(sc, name, date)
    /\ UNCHANGED <<shuffleVars, board, roundVars, pc>>

showHighScores ==
    LET highScores == loadHighScores(file)
    IN  /\ shown' = IF lengthOf(highScores) = 0 THEN NoScoresYet
                    ELSE HighScoresShown(highScores.v)
        /\ error' = ""
        /\ file' = file

ShowCommand ==
    /\ pc = "shell"
    /\ showHighScores
    /\ UNCHANGED <<shuffleVars, board, roundVars, pc>>

\* resetHighScores writing {} for []
resetWritesObject ==
    /\ file' = Written(stringify(Obj(<<>>)))
    /\ error' = ""
    /\ shown' = Nothing

resetHighScores ==
    /\ file' = Written(stringify(Arr(<<>>)))
    /\ error' = ""
    /\ shown' = Nothing

ResetCommand ==
    /\ pc = "shell"
    /\ resetHighScores
    /\ UNCHANGED <<shuffleVars, board, roundVars, pc>>

\* what is saved: each of these scores under the first name, two of them
\* under the second name too; and what the file may hold to begin with:
\* nothing, a text that is not JSON, JSON that is not an array
SavedScores == {50, 60, 70, 75, 80, 90}
TiedScores == {60, 75}
Saved == (SavedScores \X {Player}) \cup (TiedScores \X {Quoted})
Truncated == <<Punct("["), Punct("{")>>
NotAList == <<Punct("{"), Punct("}")>>
ScoreFiles == {Absent, Written(Truncated), Written(NotAList)}

InitScores ==
    /\ symbols = SYMBOLS
    /\ array = EmptyArray
    /\ i = 0
    /\ swaps = 0
    /\ board = EmptyArray
    /\ revealed = AllHidden
    /\ moves = 0
    /\ matches = 0
    /\ row1 = NoPick /\ col1 = NoPick
    /\ answer = True
    /\ result = NoResult
    /\ matched = {}
    /\ score = NoScore
    /\ file \in ScoreFiles
    /\ error = ""
    /\ shown = Nothing
    /\ pc = "shell"

NextScores ==
    \/ \E s \in Saved, date \in Dates : SaveCommand(s[1], s[2], date)
    \/ ShowCommand
    \/ ResetCommand

SpecScores == InitScores /\ [][NextScores]_vars

(***************************************************************************)
(* The commands when a write may fail.  fs.writeFile opens the file with   *)
(* flag 'w', which cuts it to length 0, and then writes the text: a write  *)
(* that fails leaves the file as it was when the open failed, and empty or *)
(* with the beginning of the text when the failure came later.  Neither    *)
(* saveHighScore nor resetHighScores catches the rejection.                *)
(***************************************************************************)
WriteError == "WriteError"
WriteOutcomes == {"written", "unopened", "truncated", "partial"}

writeFile(data, outcome) ==
    CASE outcome = "written" -> Written(data)
      [] outcome = "unopened" -> file
      [] outcome = "truncated" -> Written(<<>>)
      [] outcome = "partial" -> Written(SubSeq(data, 1, Len(data) \div 2))

saveHighScoreWriting(sc, name, date, outcome) ==
    LET highScores == loadHighScores(file)
    IN  IF highScores.t # "array"
        THEN /\ error' = "TypeError"
             /\ file' = file
             /\ shown' = Nothing
        ELSE /\ file' = writeFile(stringify(Arr(merge(highScores.v,
                                      Entry(name, sc, date)))), outcome)
             /\ error' = IF outcome = "written" THEN "" ELSE WriteError
             /\ shown' = Nothing

SaveCommandWriting(sc, name, date, outcome) ==
    /\ pc = "shell"
    /\ saveHighScoreWriting(sc, name, date, outcome)
    /\ UNCHANGED <<shuffleVars, board, roundVars, pc>>

resetHighScoresWriting(outcome) ==
    /\ file' = writeFile(stringify(Arr(<<>>)), outcome)
    /\ error' = IF outcome = "written" THEN "" ELSE WriteError
    /\ shown' = Nothing

ResetCommandWriting(outcome) ==
    /\ pc = "shell"
    /\ resetHighScoresWriting(outcome)
    /\ UNCHANGED <<shuffleVars, board, roundVars, pc>>

SavedWriting == {55, 60, 65} \X {Player}

NextWrites ==
    \/ \E s \in SavedWriting, date \in Dates, outcome \in WriteOutcomes :
           SaveCommandWriting(s[1], s[2], date, outcome)
    \/ ShowCommand
    \/ \E outcome \in WriteOutcomes : ResetCommandWriting(outcome)

SpecWrites == InitScores /\ [][NextWrites]_vars

(***************************************************************************)
(* The claims.                                                             *)
(***************************************************************************)
Prompting == pc \in {"first", "second"}
Refused == Prompting /\ answer' # True
Accepted == Prompting /\ answer' = True /\ pc' # pc
FirstPickOf(input) == parseCoordinates(input) = <<row1, col1>>
Target(input) == revealed[parseCoordinates(input)[1]][parseCoordinates(input)[2]]

\* C1: a pick that a prompt refuses (bad format, out of range, already
\* revealed, same as the first pick) leaves the board, the reveal mask,
\* moves, matches and the remembered first pick as they were.
C1_RefusedPickChangesNothing ==
    [][Refused => UNCHANGED <<board, revealed, moves, matches, row1, col1>>]_vars

\* a second pick was refused after a pair had been found
C1_Witness == pc = "second" /\ answer = InvalidOrRevealed /\ matches > 0

HiddenCell(a) == parseCoordinates(a) \in Cells /\ ~Target(a)
C3_AcceptedPickIsHiddenCell ==
    /\ [](pc = "first" =>
            \A a \in Answers :
                /\ validateFirst(a) = True => HiddenCell(a)
                /\ (a \in WellFormed /\ Target(a)) => validateFirst(a) = AlreadyRevealed)
    /\ [](pc = "second" =>
            \A a \in Answers :
                /\ validateSecond(a) = True => HiddenCell(a)
                /\ (a \in WellFormed /\ Target(a)) => validateSecond(a) = InvalidOrRevealed)
    /\ [][(Accepted /\ pc = "first") =>
            /\ <<row1', col1'>> \in Cells
            /\ ~revealed[row1'][col1']
            /\ revealed' = [revealed EXCEPT ![row1'][col1'] = TRUE]]_vars
    /\ [][(Accepted /\ pc = "second") =>
            \E cell \in Cells :
                /\ ~revealed[cell[1]][cell[2]]
                /\ result' = MatchFound =>
                       revealed' = [revealed EXCEPT ![cell[1]][cell[2]] = TRUE]]_vars

\* the first prompt refused a pick on a cell of a found pair
C3_Witness == pc = "first" /\ answer = AlreadyRevealed /\ matches > 0

\* C5: the cells of a found pair stay revealed for the rest of the round.
C5_MatchedStayRevealed ==
    /\ [](\A cell \in matched : revealed[cell[1]][cell[2]])
    /\ [][matched \subseteq matched']_vars
    /\ [][(pc = "second" /\ result' = MatchFound /\ pc' = "pause") =>
            \E cell \in Cells :
                /\ board[cell[1]][cell[2]] = board[row1][col1]
                /\ cell # <<row1, col1>>
                /\ matched' = matched \cup {<<row1, col1>>, cell}]_vars

\* a turn was a mismatch after a pair had been found
C5_Witness == pc = "pause" /\ result = NoMatch /\ matches > 0

\* C6: the round is over exactly when matches is 8: after a turn the loop
\* goes on to the next first pick if matches < 8 and ends if matches = 8,
\* no pick is asked for with matches = 8, and every cell is revealed then.
Complete == matches = Pairs
C6_CompleteAtEightMatches ==
    /\ [](matches <= Pairs)
    /\ [](Prompting => ~Complete)
    /\ [](pc \in {"name", "done"} => Complete)
    /\ [](Complete => \A cell \in Cells : revealed[cell[1]][cell[2]])
    /\ [][pc = "pause" /\ pc' # pc =>
            pc' = IF Complete THEN "name" ELSE "first"]_vars

\* a round ended after a mismatched turn
C6_Witness == pc = "name" /\ matches = Pairs /\ moves > Pairs

\* C4: createBoard gives 4 rows of 4 cells holding 8 symbols, each twice;
\* every swap of the shuffle keeps the symbols of the array, and the
\* module-level list is left as it is.
Occurrences(a, sym) == Cardinality({k \in DOMAIN a : a[k] = sym})
SymbolsUsed == {SYMBOLS[k] : k \in DOMAIN SYMBOLS}
CellsHolding(b, sym) ==
    Cardinality({cell \in Cells : b[cell[1]][cell[2]] = sym})
C4_BoardIsEightPairs ==
    /\ symbols = SYMBOLS
    /\ Cardinality(SymbolsUsed) = Pairs
    /\ DOMAIN array = 0..15
    /\ \A sym \in SymbolsUsed : Occurrences(array, sym) = 2
    /\ pc = "created" =>
          /\ DOMAIN board = 0..(Side - 1)
          /\ \A r \in DOMAIN board : DOMAIN board[r] = 0..(Side - 1)
          /\ \A cell \in Cells : board[cell[1]][cell[2]] \in SymbolsUsed
          /\ \A sym \in SymbolsUsed : CellsHolding(board, sym) = 2
          /\ \A cell \in Cells : board[cell[1]][cell[2]] = array[cell[1] * Side + cell[2]]

\* a board made by a shuffle that drew two proper swaps
C4_Witness == pc = "created" /\ swaps = 2 /\ board # rows(SYMBOLS)

\* C7: the score is max(100 - 5 * moves, 10): never below 10, not higher
\* than the score of any smaller move count, 100 for 0 moves, 60 for 8
\* and 10 for 30.
C7_ScoreIsFlooredAndMonotone ==
    pc = "scored" =>
        /\ score >= 10
        /\ (100 - 5 * moves >= 10) => score = 100 - 5 * moves
        /\ (100 - 5 * moves < 10) => score = 10
        /\ \A m \in 0..moves : computeScore(m) >= score
        /\ moves = 0 => score = 100
        /\ moves = 8 => score = 60
        /\ moves = 30 => score = 10

\* the score of a round of 30 moves
C7_Witness == pc = "scored" /\ moves = 30 /\ score = 10

\* C8: whatever saves and resets came before, the list in the file has at
\* most 5 entries, in descending order of score.
scoreOf(entry) == get(entry, ScoreKey).v
Descending(list) ==
    \A k \in 1..(Len(list) - 1) : scoreOf(list[k]) >= scoreOf(list[k + 1])
Persisted == loadHighScores(file)
C8_AtMostFiveDescending ==
    Persisted.t = "array" => (Len(Persisted.v) <= Keep /\ Descending(Persisted.v))

\* a full list of five different scores
C8_Witness ==
    /\ Persisted.t = "array"
    /\ Len(Persisted.v) = Keep
    /\ \A k \in 1..(Keep - 1) : scoreOf(Persisted.v[k]) > scoreOf(Persisted.v[k + 1])

\* C9: merge gives the first 5 of the existing list with the entry added,
\* in descending order of score: the entry is kept iff fewer than 5
\* existing records have at least its score, at most one record is
\* dropped and no kept record scores less than it; [90,80,70,60,50] and 75
\* give [90,80,75,70,60].
Count(list, x) == Cardinality({k \in 1..Len(list) : list[k] = x})
Members(list) == {list[k] : k \in 1..Len(list)}
Scores(list) == [k \in 1..Len(list) |-> scoreOf(list[k])]
Outranking(list, entry) ==
    Cardinality({k \in 1..Len(list) : scoreOf(list[k]) >= scoreOf(entry)})
MergeIsTopFive(existing, entry) ==
    LET all == Append(existing, entry)
        new == merge(existing, entry)
        dropped == {x \in Members(all) : Count(new, x) # Count(all, x)}
    IN  /\ Len(new) = Min(Keep, Len(all))
        /\ Descending(new)
        /\ \A x \in Members(new) : Count(new, x) <= Count(all, x)
        /\ Len(all) <= Keep => dropped = {}
        /\ \A x \in dropped :
              /\ dropped = {x}
              /\ Count(new, x) = Count(all, x) - 1
              /\ \A y \in Members(new) : scoreOf(y) >= scoreOf(x)
        /\ (Count(new, entry) = Count(existing, entry) + 1)
              <=> (Outranking(existing, entry) < Keep)
        /\ (Scores(existing) = <<90, 80, 70, 60, 50>> /\ scoreOf(entry) = 75)
              => Scores(new) = <<90, 80, 75, 70, 60>>
C9_MergeKeepsTopFive ==
    Persisted.t = "array" =>
        \A s \in Saved, date \in Dates :
            MergeIsTopFive(Persisted.v, Entry(s[2], s[1], date))

\* the list of the scenario after the merge
C9_Witness ==
    Persisted.t = "array" /\ Scores(Persisted.v) = <<90, 80, 75, 70, 60>>

\* C10: a list that is persisted and then loaded comes back equal, field
\* for field and in the same order.
RoundTrip(list) == loadHighScores(Written(stringify(Arr(list)))) = Arr(list)
C10_LoadAfterSaveIsEqual ==
    Persisted.t = "array" =>
        /\ RoundTrip(Persisted.v)
        /\ \A s \in Saved, date \in Dates :
               RoundTrip(merge(Persisted.v, Entry(s[2], s[1], date)))

\* a full list that holds a name with a quote and a backslash
C10_Witness ==
    /\ Persisted.t = "array"
    /\ Len(Persisted.v) = Keep
    /\ \E k \in 1..Keep : get(Persisted.v[k], NameKey) = Str(Quoted)

\* C11 as claimed: when the file is absent or does not hold a list,
\* highscore prints the no-scores message, a save leaves a list of one
\* entry, and no command throws.
Unreadable ==
    \/ ~file.exists
    \/ ~JSONparse(file.data).ok
    \/ JSONparse(file.data).v.t # "array"
C11_UnreadableFileIsEmptyList ==
    [][Unreadable =>
          /\ error' = ""
          /\ shown' # Nothing => shown' = NoScoresYet
          /\ shown' = Nothing =>
                 \/ loadHighScores(file') = Arr(<<>>)
                 \/ (loadHighScores(file').t = "array" /\ Len(loadHighScores(file').v) = 1)]_vars

\* C13: after a reset the file holds the empty list, whatever it held
\* before, highscore then prints the no-scores message, and a second reset
\* changes nothing.
Emptied == Written(<<Punct("["), Punct("]")>>)
C13_ResetPersistsEmptyList ==
    /\ [][ResetCommand =>
             /\ file' = Emptied
             /\ loadHighScores(file') = Arr(<<>>)
             /\ error' = ""]_vars
    /\ [][(ResetCommand /\ file = Emptied) => file' = file]_vars
    /\ [][(ShowCommand /\ file = Emptied) => shown' = NoScoresYet]_vars

\* highscore after a reset
C13_Witness == file = Emptied /\ shown = NoScoresYet

\* C16: records of equal score keep their order in a merge and the new
\* entry goes after every existing record of its score: the result is the
\* existing list with the entry put in after the last record that scores
\* at least as much, cut to 5, so that an entry that ties with the 5th
\* record of a full list is the one dropped.
InsertedAfterEquals(existing, entry) ==
    LET new == merge(existing, entry)
        at == Outranking(existing, entry) + 1
        all == SubSeq(existing, 1, at - 1) \o <<entry>>
                   \o SubSeq(existing, at, Len(existing))
    IN  /\ \A k \in 1..(at - 1) : scoreOf(existing[k]) >= scoreOf(entry)
        /\ \A k \in at..Len(existing) : scoreOf(existing[k]) < scoreOf(entry)
        /\ new = SubSeq(all, 1, Min(Keep, Len(all)))
        /\ (Len(existing) = Keep /\ scoreOf(existing[Keep]) = scoreOf(entry))
              => new = existing
C16_TiesKeepInsertionOrder ==
    Persisted.t = "array" =>
        \A s \in Saved, date \in Dates :
            InsertedAfterEquals(Persisted.v, Entry(s[2], s[1], date))

\* a full list in which two records of one score stand in the order they
\* were saved in, the second name first, and the 5th record has that score
nameOf(entry) == get(entry, NameKey).v
C16_Witness ==
    /\ Persisted.t = "array"
    /\ Len(Persisted.v) = Keep
    /\ scoreOf(Persisted.v[Keep]) = scoreOf(Persisted.v[Keep - 1])
    /\ nameOf(Persisted.v[Keep - 1]) = Quoted
    /\ nameOf(Persisted.v[Keep]) = Player

\* C12 as claimed: a write that fails, in a save or in a reset, leaves a
\* file that held a list loading as the same list as before the attempt.
C12_FailedWriteKeepsList ==
    [][(~Unreadable /\ error' = WriteError) =>
          loadHighScores(file') = loadHighScores(file)]_vars

\* C14: an accepted second pick that ends in NoMatch leaves matches as it
\* was and the reveal flags as they were before the turn's first pick, so
\* both picked cells are face down; the pause changes no flag and leads to
\* the first prompt; and the first prompt accepts every cell that is face
\* down, the two cells of the turn among them.
Mismatched == pc = "second" /\ pc' = "pause" /\ result' = NoMatch
C14_MismatchHidesBothCards ==
    /\ [][Mismatched =>
             /\ matches' = matches
             /\ revealed[row1][col1] /\ ~revealed'[row1][col1]
             /\ revealed' = [revealed EXCEPT ![row1][col1] = FALSE]]_vars
    /\ [][(pc = "pause" /\ result = NoMatch) =>
             (revealed' = revealed /\ pc' = "first")]_vars
    /\ [](pc = "first" =>
             \A a \in WellFormed : HiddenCell(a) => validateFirst(a) = True)

\* a first pick accepted right after a mismatch
C14_Witness == pc = "second" /\ result = NoMatch /\ moves = 1 /\ matches = 0

\* C15: moves goes up by exactly 1 in the step that accepts a second pick,
\* match or mismatch, and no other step changes it; it is 0 exactly as
\* long as no turn has been resolved.
TurnResolved == pc = "second" /\ pc' = "pause"
C15_MoveCountedPerTurn ==
    /\ [][moves' = IF TurnResolved THEN moves + 1 ELSE moves]_vars
    /\ [](moves = 0 <=> result = NoResult)

\* two turns resolved, one a match and one a mismatch
C15_Witness == pc = "pause" /\ moves = 2 /\ matches = 1

\* C17 as claimed: the file is as it was when the round began until the
\* round is over, and the round that is over has added one record with the
\* score of the final moves to it.
RoundEntries == {Entry(name, score, date) : name \in Names, date \in Dates}
AtRoundStart == loadHighScores(CHOOSE f \in RoundFiles : TRUE).v
FaceUp == {cell \in Cells : revealed[cell[1]][cell[2]]}
Paired(cells) ==
    \A c \in cells :
        \E d \in cells \ {c} : board[d[1]][d[2]] = board[c[1]][c[2]]
C18_RevealedArePairsPlusFirstPick ==
    IF pc = "second"
    THEN /\ <<row1, col1>> \in FaceUp
         /\ Cardinality(FaceUp) = 2 * matches + 1
         /\ Paired(FaceUp \ {<<row1, col1>>})
    ELSE /\ Cardinality(FaceUp) = 2 * matches
         /\ Paired(FaceUp)

\* the second prompt with three pairs found
C18_Witness == pc = "second" /\ matches = 3 /\ moves = 4

\* C19: as long as pairs are missing the round is at a prompt or in the
\* pause before one; the first prompt has an answer it accepts; and at the
\* second prompt the partner of the first pick is another cell, face down,
\* and the answer that names it is accepted.
PartnerOfFirstPick(a) ==
    LET p == parseCoordinates(a)
    IN  /\ p # <<row1, col1>>
        /\ board[p[1]][p[2]] = board[row1][col1]
        /\ ~revealed[p[1]][p[2]]
        /\ validateSecond(a) = True
C19_SomePickIsAccepted ==
    /\ matches < Pairs => pc \in {"first", "second", "pause"}
    /\ pc = "first" => \E a \in WellFormed : validateFirst(a) = True
    /\ pc = "second" => \E a \in WellFormed : PartnerOfFirstPick(a)

\* the second prompt of the last pair, after a mismatch
C19_Witness == pc = "second" /\ matches = Pairs - 1 /\ moves = Pairs

\* C20: matches is in 0..8 and never above moves; a round that is over has
\* at least 8 moves and a score between 10 and 60.
C20_CountsAndScoreInRange ==
    /\ matches \in 0..Pairs
    /\ matches <= moves
    /\ pc \in {"name", "done"} =>
           /\ moves >= Pairs
           /\ score \in 10..60
    /\ pc \notin {"name", "done"} => score = NoScore

\* a round over in 8 moves: the score is 60
C20_Witness == pc = "done" /\ moves = Pairs /\ score = 60

====
